---- MODULE Spec2Model ----
(***************************************************************************)
(* A model of rexpect's PtySession (src/src/session.rs): one session over a *)
(* PTY master descriptor and one forked child.  The caller's thread calls   *)
(* spawn, send_line, status and exit and finally drops the session; the     *)
(* child runs concurrently and is seen only through the PTY and waitpid.    *)
(*                                                                          *)
(* Operating-system and std behaviour the code relies on (Linux):           *)
(*  - File::from_raw_fd takes ownership of the raw number, File::try_clone  *)
(*    dup()s it, dropping a File close()s its number;                       *)
(*  - close(n) closes the number n only; a dup of it stays open;            *)
(*  - write() on an open PTY master descriptor succeeds;                    *)
(*  - kill() succeeds on a running or zombie child, fails once reaped;      *)
(*  - waitpid(pid, WNOHANG) returns StillAlive, or reaps a zombie, or fails *)
(*    with ECHILD once the child has been reaped;                           *)
(*  - LineWriter<W> is a BufWriter of 1024 bytes that is flushed after the  *)
(*    last newline of each write;                                           *)
(*  - the terminal hands the child complete lines only; what the child      *)
(*    writes to the slave side can be read from the master's number m.      *)
(***************************************************************************)
EXTENDS Integers, Sequences, FiniteSets, TLC

\* ---------------------------------------------------------------- bounds
MaxCalls == 4      \* calls recorded in the call history; send_line and exit
                   \* are called only while the history has room
MaxCode  == 1      \* exit codes 0..MaxCode of a child that exits on its own

\* LineWriter::new(inner) is LineWriter::with_capacity(1024, inner).  The
\* model scales the 1024 bytes down; the texts below are scaled with it.
Capacity == 4

NL == "\n"

\* ---------------------------------------------------------------- inputs
Rep(n) == [i \in 1..n |-> "x"]

\* the texts passed to send_line: the test's newline-free text, lines,
\* a line with a tail, and texts that fill or exceed the writer's buffer
Texts ==
    { <<"h", "s">>,
      <<"h", NL>>,
      <<"h", NL, "s">>,
      Rep(Capacity - 1),
      Rep(Capacity) }

\* the programs passed to spawn, by what the child does: whether it exits on
\* its own (and with which code), how it disposes of SIGHUP, whether it
\* copies its input to its output (as cat does), and whether the program is
\* missing, so that the child cannot exec it and ends with a non-zero code
Programs ==
    [exits : {TRUE}, code : 0..MaxCode, hup : {"default", "ignore"},
     echoes : {FALSE}, missing : {FALSE}]
    \cup [exits : {FALSE}, code : {0}, hup : {"default", "ignore"},
          echoes : BOOLEAN, missing : {FALSE}]
    \cup [exits : {TRUE}, code : 1..MaxCode, hup : {"default"},
          echoes : {FALSE}, missing : {TRUE}]

NoProgram == [exits |-> FALSE, code |-> 0, hup |-> "none",
              echoes |-> FALSE, missing |-> FALSE]

Fds == {"m", "w"}   \* m: the master's raw number; w: its duplicate

VARIABLES
    phase,      \* "none", "live", "failed", "dropped": the PtySession value
    program,    \* the program spawned
    child,      \* [state, status, hupPending]: the forked child
    open,       \* [Fds -> BOOLEAN]: the process's descriptor table
    mCloses,    \* number of close() calls issued on the master's number m
    buffer,     \* bytes held by the LineWriter
    written,    \* bytes written to the PTY master, as the child can read them
    echoed,     \* how many of the written bytes the child has copied to its
                \* output, where the reader over m can read them
    sent,       \* bytes of the texts of all successful send_line calls
    ret,        \* [op, ok, val]: the last call and what it returned
    sys,        \* the system calls the last call issued, in order
    hist,       \* the first MaxCalls calls, [op, ok], in order
    exited      \* exit() has returned Ok

vars == <<phase, program, child, open, mCloses, buffer, written, echoed,
          sent, ret, sys, hist, exited>>

NoChild == [state |-> "none", status |-> <<"None">>, hupPending |-> FALSE]

StillAlive == <<"StillAlive">>
Exited(c)  == <<"Exited", c>>
Signaled   == <<"Signaled", "SIGHUP">>
NoVal      == <<"None">>

Record(h, op, ok) ==
    IF Len(h) < MaxCalls THEN Append(h, [op |-> op, ok |-> ok]) ELSE h

Sys(call, arg, ok) == [call |-> call, arg |-> arg, ok |-> ok]

Init ==
    /\ phase = "none"
    /\ program = NoProgram
    /\ child = NoChild
    /\ open = [f \in Fds |-> FALSE]
    /\ mCloses = 0
    /\ buffer = <<>>
    /\ written = <<>>
    /\ echoed = 0
    /\ sent = <<>>
    /\ ret = [op |-> "none", ok |-> TRUE, val |-> NoVal]
    /\ sys = <<>>
    /\ hist = <<>>
    /\ exited = FALSE

\* ------------------------------------------------------- the descriptors
\* a close that reports Ok also for a number that is not open
CloseOkAlways(tbl, fd) == TRUE

\* unistd::close(fd): Ok when the number is open, EBADF otherwise
CloseOk(tbl, fd) == tbl[fd]

Closed(tbl, fd) == [tbl EXCEPT ![fd] = FALSE]

\* write(fd, data) on the PTY master: Ok when the number is open
WriteOk(tbl, fd) == tbl[fd]

\* ---------------------------------------------------------------- spawn
\* PtyProcess::new (process.rs): allocates the PTY, forks and execs; the
\* PtyProcess owns the master descriptor and the child's pid
PtyProcessNew(p) == [state |-> "running", status |-> StillAlive, hupPending |-> FALSE]

\* dropping a PtyProcess closes the master descriptor it owns
PtyProcessDrop(tbl) == Closed(tbl, "m")

\* spawn(program): the three ways it can end
SpawnOutcomes == {"ok", "pty_err", "clone_err"}

Spawn ==
    /\ phase = "none"
    /\ \E p \in Programs, how \in SpawnOutcomes :
        /\ program' = p
        /\ CASE how = "pty_err" ->
                \* PtyProcess::new(command) failed: nothing was created
                /\ phase' = "failed"
                /\ UNCHANGED <<child, open, mCloses>>
                /\ sys' = <<>>
             [] how = "clone_err" ->
                \* f.try_clone() failed: `?` returns and drops f, then process,
                \* each closing the number m
                /\ phase' = "failed"
                /\ child' = PtyProcessNew(p)
                /\ open' = PtyProcessDrop(Closed([open EXCEPT !["m"] = TRUE], "m"))
                /\ mCloses' = mCloses + 2
                /\ sys' = <<Sys("dup", "m", FALSE), Sys("close", "m", TRUE),
                            Sys("close", "m", FALSE)>>
             [] how = "ok" ->
                \* f = File::from_raw_fd(m); writer over f.try_clone() = dup(m);
                \* reader over f
                /\ phase' = "live"
                /\ child' = PtyProcessNew(p)
                /\ open' = [f \in Fds |-> TRUE]
                /\ UNCHANGED mCloses
                /\ sys' = <<Sys("dup", "m", TRUE)>>
        /\ ret' = [op |-> "spawn", ok |-> (how = "ok"), val |-> NoVal]
        /\ hist' = Record(hist, "spawn", how = "ok")
    /\ UNCHANGED <<buffer, written, echoed, sent, exited>>

\* ------------------------------------------------------------- send_line
\* index of the last newline of data, 0 when it has none (memrchr)
LastNewline(data) ==
    LET idx == {i \in 1..Len(data) : data[i] = NL}
    IN IF idx = {} THEN 0 ELSE CHOOSE i \in idx : \A j \in idx : j <= i

\* a writer is [buf, out]: the bytes it holds and the bytes it has handed to
\* write() on its descriptor
BufWriterFlushBuf(w) == [buf |-> <<>>, out |-> w.out \o w.buf]

\* BufWriter::write: flush when data does not fit, write through when data is
\* at least the capacity, else hold it
BufWriterWrite(w, data) ==
    LET w1 == IF Len(w.buf) + Len(data) > Capacity THEN BufWriterFlushBuf(w) ELSE w
    IN IF Len(data) >= Capacity
         THEN [w1 EXCEPT !.out = @ \o data]
         ELSE [w1 EXCEPT !.buf = @ \o data]

\* a writer that is block-buffered only: no flush at a newline
LineWriterWriteNoLineFlush(w, data) == BufWriterWrite(w, data)

\* LineWriter::write: everything up to the last newline is written and
\* flushed, the rest goes to the BufWriter
LineWriterWrite(w, data) ==
    LET i == LastNewline(data)
    IN IF i = 0
         THEN BufWriterWrite(w, data)
         ELSE BufWriterWrite(
                  BufWriterFlushBuf(BufWriterWrite(w, SubSeq(data, 1, i))),
                  SubSeq(data, i + 1, Len(data)))

\* a send_line that terminates the line itself
SendLineBytesTerminated(line) == line \o <<NL>>

\* send_line hands line.as_bytes() to the writer and nothing else
SendLineBytes(line) == line

SendLine ==
    /\ phase = "live"
    /\ Len(hist) < MaxCalls
    /\ \E line \in Texts :
        LET bytes == SendLineBytes(line)
            w     == LineWriterWrite([buf |-> buffer, out |-> <<>>], bytes)
            wrote == w.out # <<>>
            ok    == ~wrote \/ WriteOk(open, "w")
        IN /\ buffer' = IF ok THEN w.buf ELSE buffer
           /\ written' = IF ok THEN written \o w.out ELSE written
           /\ sent' = IF ok THEN sent \o line ELSE sent
           /\ sys' = IF wrote THEN <<Sys("write", "w", ok)>> ELSE <<>>
           /\ ret' = [op |-> "send_line", ok |-> ok, val |-> NoVal]
           /\ hist' = Record(hist, "send_line", ok)
    /\ UNCHANGED <<phase, program, child, open, mCloses, echoed, exited>>

\* ---------------------------------------------------------------- status
\* a status() that waits without the no-hang option
StatusOptionsBlocking == "NONE"

\* the options status() passes to waitpid
StatusOptions == "WNOHANG"

\* waitpid can return at once with WNOHANG; without it, it blocks while the
\* child runs
WaitPidReturns(c, options) == options = "WNOHANG" \/ c.state # "running"

\* a waitpid that reaps a terminated child but reports it as Exited(0)
WaitPidLosesStatus(c) ==
    CASE c.state = "running" -> [ok |-> TRUE, val |-> StillAlive, child |-> c]
      [] c.state = "zombie"  -> [ok |-> TRUE, val |-> Exited(0),
                                 child |-> [c EXCEPT !.state = "reaped"]]
      [] OTHER               -> [ok |-> FALSE, val |-> <<"ECHILD">>, child |-> c]

\* a waitpid that reports a terminated child without reaping it
WaitPidNoReap(c) ==
    CASE c.state = "running" -> [ok |-> TRUE, val |-> StillAlive, child |-> c]
      [] c.state = "zombie"  -> [ok |-> TRUE, val |-> c.status, child |-> c]
      [] OTHER               -> [ok |-> FALSE, val |-> <<"ECHILD">>, child |-> c]

\* a waitpid whose StillAlive poll forgets the child
WaitPidStillAliveReaps(c) ==
    CASE c.state = "running" -> [ok |-> TRUE, val |-> StillAlive,
                                 child |-> [c EXCEPT !.state = "reaped"]]
      [] c.state = "zombie"  -> [ok |-> TRUE, val |-> c.status,
                                 child |-> [c EXCEPT !.state = "reaped"]]
      [] OTHER               -> [ok |-> FALSE, val |-> <<"ECHILD">>, child |-> c]

\* wait::waitpid(pid, options): [ok, val, child]
WaitPid(c) ==
    CASE c.state = "running" -> [ok |-> TRUE, val |-> StillAlive, child |-> c]
      [] c.state = "zombie"  -> [ok |-> TRUE, val |-> c.status,
                                 child |-> [c EXCEPT !.state = "reaped"]]
      [] OTHER               -> [ok |-> FALSE, val |-> <<"ECHILD">>, child |-> c]

Status ==
    /\ phase = "live"
    /\ WaitPidReturns(child, StatusOptions)
    /\ LET r == WaitPid(child)
       IN /\ child' = r.child
          /\ ret' = [op |-> "status", ok |-> r.ok, val |-> r.val]
          /\ sys' = <<Sys("waitpid", "pid", r.ok)>>
          /\ hist' = Record(hist, "status", r.ok)
    /\ UNCHANGED <<phase, program, open, mCloses, buffer, written, echoed,
                   sent, exited>>

\* ------------------------------------------------------------------ exit
\* a kill that fails on a child that has terminated but is not yet reaped
KillOkRunningOnly(c) == c.state = "running"

\* signal::kill(pid, SIGHUP): Ok while the pid names a running or zombie child
KillOk(c) == c.state \in {"running", "zombie"}

\* a kill that returns Ok without making any signal pending
KilledNoSignal(c) == c

\* a kill followed by a wait that reaps the child
KilledAndReaped(c) == [c EXCEPT !.state = "reaped", !.status = Signaled]

\* the child after a successful kill: SIGHUP is pending for a running child
Killed(c) == IF c.state = "running" THEN [c EXCEPT !.hupPending = TRUE] ELSE c

\* an exit() that closes the descriptor before it signals the child
ExitCallsCloseFirst(c, tbl) ==
    <<Sys("close", "m", CloseOk(tbl, "m")), Sys("kill", "pid", KillOk(c))>>

\* an exit() that closes the descriptor whether or not kill was Ok
ExitCallsAlwaysClose(c, tbl) ==
    <<Sys("kill", "pid", KillOk(c)), Sys("close", "m", CloseOk(tbl, "m"))>>

\* the system calls of exit(): kill, and then close(m) when kill was Ok
ExitCalls(c, tbl) ==
    IF KillOk(c)
      THEN <<Sys("kill", "pid", TRUE), Sys("close", "m", CloseOk(tbl, "m"))>>
      ELSE <<Sys("kill", "pid", FALSE)>>

Exit ==
    /\ phase = "live"
    /\ Len(hist) < MaxCalls
    /\ LET calls  == ExitCalls(child, open)
           ok     == \A i \in 1..Len(calls) : calls[i].ok
           kills  == {i \in 1..Len(calls) : calls[i].call = "kill" /\ calls[i].ok}
           closes == {i \in 1..Len(calls) : calls[i].call = "close"}
       IN /\ sys' = calls
          /\ child' = IF kills # {} THEN Killed(child) ELSE child
          /\ open' = IF closes # {} THEN Closed(open, "m") ELSE open
          /\ mCloses' = mCloses + Cardinality(closes)
          /\ ret' = [op |-> "exit", ok |-> ok, val |-> NoVal]
          /\ hist' = Record(hist, "exit", ok)
          /\ exited' = (exited \/ ok)
    /\ UNCHANGED <<phase, program, buffer, written, echoed, sent>>

\* ------------------------------------------------------------------ drop
\* the session goes out of scope: its fields are dropped in declaration
\* order.  process closes m; writer flushes its buffer to w and closes w;
\* reader closes m
DropSession ==
    /\ phase = "live"
    /\ phase' = "dropped"
    /\ LET t1 == PtyProcessDrop(open)
           flushed == buffer # <<>> /\ WriteOk(t1, "w")
           t2 == Closed(t1, "w")
           t3 == Closed(t2, "m")
       IN /\ open' = t3
          /\ written' = IF flushed THEN written \o buffer ELSE written
          /\ buffer' = IF flushed THEN <<>> ELSE buffer
          /\ sys' = <<Sys("close", "m", CloseOk(open, "m"))>>
                    \o (IF buffer # <<>> THEN <<Sys("write", "w", WriteOk(t1, "w"))>>
                                         ELSE <<>>)
                    \o <<Sys("close", "w", CloseOk(t1, "w")),
                         Sys("close", "m", CloseOk(t2, "m"))>>
    /\ mCloses' = mCloses + 2
    /\ ret' = [op |-> "drop", ok |-> TRUE, val |-> NoVal]
    /\ UNCHANGED <<program, child, echoed, sent, hist, exited>>

\* ------------------------------------------------------------- the child
\* the program ends on its own with its exit code
ChildExit ==
    /\ child.state = "running"
    /\ program.exits
    /\ child' = [state |-> "zombie", status |-> Exited(program.code),
                 hupPending |-> FALSE]
    /\ UNCHANGED <<phase, program, open, mCloses, buffer, written, echoed,
                   sent, ret, sys, hist, exited>>

\* the kernel delivers the pending SIGHUP: the default action terminates the
\* child, an ignored signal is discarded
DeliverSighup ==
    /\ child.state = "running"
    /\ child.hupPending
    /\ child' = IF program.hup = "default"
                  THEN [state |-> "zombie", status |-> Signaled, hupPending |-> FALSE]
                  ELSE [child EXCEPT !.hupPending = FALSE]
    /\ UNCHANGED <<phase, program, open, mCloses, buffer, written, echoed,
                   sent, ret, sys, hist, exited>>

\* an echoing program reads the complete lines the terminal hands it and
\* writes them to its output, the slave side of the PTY
ChildEcho ==
    /\ child.state = "running"
    /\ program.echoes
    /\ echoed < LastNewline(written)
    /\ echoed' = LastNewline(written)
    /\ UNCHANGED <<phase, program, child, open, mCloses, buffer, written,
                   sent, ret, sys, hist, exited>>

\* what a read through the reader, the File over the number m, can return
Readable == IF open["m"] THEN SubSeq(written, 1, echoed) ELSE <<>>

Next ==
    \/ Spawn
    \/ SendLine
    \/ Status
    \/ Exit
    \/ DropSession
    \/ ChildExit
    \/ DeliverSighup
    \/ ChildEcho

Spec == Init /\ [][Next]_vars

\* the caller keeps polling status(), and the kernel schedules the child and
\* delivers its pending signals
FairSpec ==
    /\ Spec
    /\ WF_vars(Status)
    /\ WF_vars(ChildExit)
    /\ WF_vars(DeliverSighup)
    /\ WF_vars(ChildEcho)

\* the operations of the calls recorded so far
HistOps == [i \in 1..Len(hist) |-> hist[i].op]

\* ------------------------------------------------------------------ C1
\* C1: after exit() has returned Ok, every later send_line call returns an
\* I/O error.
C1_SendLineAfterExitFails ==
    (exited /\ ret.op = "send_line") => ~ret.ok

\* ------------------------------------------------------------------ C2
\* C2: after exit() has returned Ok, the session holds no open descriptor of
\* the PTY master: neither the reader's number nor the writer's duplicate.
C2_NoOpenDescriptorAfterExit ==
    (exited /\ phase = "live") => \A f \in Fds : ~open[f]

\* ------------------------------------------------------------------ C3
\* C3: over a session's lifetime, ended by its drop, the master descriptor
\* is closed exactly once: one close() call is issued on its number.
C3_MasterClosedExactlyOnce ==
    phase = "dropped" => (mCloses = 1 /\ ~open["m"])

\* ------------------------------------------------------------------ C4
\* C4: exit() signals first and closes afterwards: every close it issues
\* directly follows a successful kill, and an exit() that returned Ok issued
\* exactly a successful kill and then a successful close of the master.
C4_ExitSignalsThenCloses ==
    ret.op = "exit" =>
        /\ \A i \in 1..Len(sys) :
              sys[i].call = "close" =>
                  (i > 1 /\ sys[i-1].call = "kill" /\ sys[i-1].ok)
        /\ ret.ok => sys = <<Sys("kill", "pid", TRUE), Sys("close", "m", TRUE)>>
        /\ ~ret.ok => (~sys[Len(sys)].ok /\ Len(sys) \in {1, 2})

C4_Witness ==
    /\ ret.op = "exit"
    /\ ret.ok
    /\ Len(sys) = 2
    /\ ~open["m"]
    /\ child.hupPending

\* ------------------------------------------------------------------ C5
\* C5: status() never blocks: it can return in every state of a live
\* session, and while the child has not changed state it returns StillAlive
\* in that one step, leaving the child as it is.
C5_StatusNeverBlocks ==
    /\ [](phase = "live" => ENABLED Status)
    /\ [][(Status /\ child.state = "running") =>
             (ret'.ok /\ ret'.val = StillAlive /\ child' = child)]_vars

C5_Witness ==
    /\ HistOps = <<"spawn", "status", "status", "status">>
    /\ ret.op = "status"
    /\ ret.val = StillAlive
    /\ child.state = "running"

\* ------------------------------------------------------------------ C6
Terminal(v) == v[1] \in {"Exited", "Signaled"}

\* C6: for a program that exits on its own with code c, a caller that keeps
\* polling status() eventually receives Exited with exactly c (unless
\* SIGHUP killed the child first or the session was dropped); every poll
\* made while the child runs returns StillAlive, the poll that finds it
\* terminated returns its status, and status() can always return.
C6_PollingReportsExitCode ==
    /\ [][Status =>
            /\ child.state = "running" => ret'.val = StillAlive
            /\ child.state = "zombie" => (ret'.ok /\ ret'.val = child.status)]_vars
    /\ [](phase = "live" => ENABLED Status)
    /\ []((child.state = "zombie" /\ child.status # Signaled)
            => (program.exits /\ child.status = Exited(program.code)))
    /\ (phase = "live" /\ program.exits /\ child.state = "running")
         ~> \/ (ret.op = "status" /\ ret.ok /\ ret.val = Exited(program.code))
            \/ child.status = Signaled
            \/ phase = "dropped"

C6_Witness ==
    /\ HistOps = <<"spawn", "status", "status">>
    /\ ~exited
    /\ program.exits
    /\ program.code = MaxCode
    /\ ret.op = "status"
    /\ ret.val = Exited(MaxCode)
    /\ child.state = "reaped"

\* ------------------------------------------------------------------ C7
\* C7: after exit() returns Ok on a session whose child is running, the
\* child eventually stops running, so that a caller that keeps the session
\* and polls status() does not receive StillAlive forever.
C7_ExitStopsChild ==
    (phase = "live" /\ ret.op = "exit" /\ ret.ok /\ child.state = "running")
        ~> (child.state # "running" \/ phase = "dropped")

\* C7 as amended: after exit() returns Ok on a session whose child is
\* running and leaves SIGHUP at its default disposition, the child
\* eventually stops running, and a caller that keeps polling status() on the
\* session receives a signaled or exited status.
C7_ExitStopsChildDefaultHup ==
    /\ (phase = "live" /\ ret.op = "exit" /\ ret.ok /\ child.state = "running"
          /\ program.hup = "default")
         ~> (child.state # "running")
    /\ (phase = "live" /\ ret.op = "exit" /\ ret.ok /\ child.state = "running"
          /\ program.hup = "default")
         ~> \/ (ret.op = "status" /\ ret.ok /\ Terminal(ret.val))
            \/ phase = "dropped"

C7_Witness ==
    /\ exited
    /\ ~program.exits
    /\ program.hup = "default"
    /\ ret.op = "status"
    /\ ret.val = Signaled
    /\ child.state = "reaped"

\* ------------------------------------------------------------------ C8
\* C8: in spawn -> send_line -> exit() -> status() every call returns Ok and
\* the status() call reports a terminal status, never StillAlive.
C8_StatusAfterExitIsTerminal ==
    HistOps = <<"spawn", "send_line", "exit", "status">> =>
        /\ \A i \in 1..Len(hist) : hist[i].ok
        /\ ret.op = "status" => ret.val # StillAlive

\* C8 as amended: in spawn -> send_line -> exit() -> status() every call
\* returns Ok; the status() call reports StillAlive while the child has not
\* yet terminated, and the child's terminal status (signaled by SIGHUP, or
\* exited) once it has.
C8_StatusAfterExitFollowsChild ==
    /\ [](HistOps = <<"spawn", "send_line", "exit", "status">>
            => \A i \in 1..Len(hist) : hist[i].ok)
    /\ [][(Status /\ HistOps = <<"spawn", "send_line", "exit">>) =>
            /\ ret'.ok
            /\ (ret'.val = StillAlive) <=> (child.state = "running")
            /\ child.state # "running" =>
                  (Terminal(ret'.val) /\ ret'.val = child.status)]_vars

C8_Witness ==
    /\ HistOps = <<"spawn", "send_line", "exit", "status">>
    /\ ret.op = "status"
    /\ ret.val = Signaled

\* ------------------------------------------------------------------ C9
\* C9: the bytes written to the master descriptor followed by the bytes the
\* writer still holds are the texts of the successful send_line calls, in
\* call order, with no byte added, dropped or reordered.
C9_BytesPreserved ==
    written \o buffer = sent

C9_Witness ==
    /\ HistOps = <<"spawn", "send_line", "send_line", "send_line">>
    /\ written = <<"h", NL>> \o Rep(Capacity - 1)
    /\ buffer = <<"h", "s">>

\* ----------------------------------------------------------------- C10
UpToLastNewline(data) == SubSeq(data, 1, LastNewline(data))

AfterLastNewline(data) == SubSeq(data, LastNewline(data) + 1, Len(data))

IsPrefix(a, b) == Len(a) <= Len(b) /\ SubSeq(b, 1, Len(a)) = a

\* C10: after send_line returns Ok, the bytes up to and including the last
\* newline sent so far have been written, and the bytes sent after it are
\* all still in the writer's buffer.
C10_TailStaysBuffered ==
    (ret.op = "send_line" /\ ret.ok) =>
        /\ written = UpToLastNewline(sent)
        /\ buffer = AfterLastNewline(sent)

\* C10 as amended: after send_line returns Ok, the bytes up to and including
\* the last newline sent so far have been written and the buffer holds no
\* newline; the bytes sent after the last newline are all still in the
\* buffer as long as they are fewer than the buffer's capacity.
C10_TailStaysBufferedWithinCapacity ==
    (ret.op = "send_line" /\ ret.ok) =>
        /\ IsPrefix(UpToLastNewline(sent), written)
        /\ LastNewline(buffer) = 0
        /\ Len(AfterLastNewline(sent)) < Capacity =>
              (buffer = AfterLastNewline(sent) /\ written = UpToLastNewline(sent))

C10_Witness ==
    /\ HistOps = <<"spawn", "send_line", "send_line">>
    /\ ret.op = "send_line"
    /\ ret.ok
    /\ sent = <<"h", NL, "s", "h", "s">>
    /\ written = <<"h", NL>>
    /\ buffer = <<"s", "h", "s">>

\* ----------------------------------------------------------------- C11
\* the first n elements of a sequence, all of it when it is shorter
Take(seq, n) == [i \in 1..(IF n < Len(seq) THEN n ELSE Len(seq)) |-> seq[i]]

\* every complete line sent so far can be read through the reader
LinesReadable ==
    LET k == LastNewline(sent)
    IN Len(Readable) >= k /\ Take(Readable, k) = Take(sent, k)

\* C11: for a session running a program that echoes its input, once
\* send_line of a text ending in a newline has returned Ok, that line (with
\* everything sent before it) eventually becomes readable through the reader
\* over the master descriptor, unless exit() is called or the session is
\* dropped.  The bytes sent only grow, so a later state in which every
\* complete line sent by then is readable is one in which that line is.
C11_EchoRoundTrip ==
    (/\ phase = "live"
     /\ ~exited
     /\ program.echoes
     /\ ret.op = "send_line"
     /\ ret.ok
     /\ sent # <<>>
     /\ sent[Len(sent)] = NL)
    ~> \/ LinesReadable
       \/ exited
       \/ phase = "dropped"

C11_Witness ==
    /\ phase = "live"
    /\ ~exited
    /\ program.echoes
    /\ HistOps = <<"spawn", "send_line", "send_line">>
    /\ sent = <<"h", "s", "h", NL>>
    /\ Readable = sent

\* ----------------------------------------------------------------- C12
\* C12: Exited is terminal: once exit() has returned Ok, the master's number
\* is never open again, nothing is readable through the session and no
\* send_line on it succeeds.
C12_NoWayBackFromExited ==
    exited =>
        /\ ~open["m"]
        /\ Readable = <<>>
        /\ ret.op = "send_line" => ~ret.ok

\* ----------------------------------------------------------------- C13
\* C13: exit() never reaps the child: it leaves the child's state as it is;
\* a terminated child stays a zombie until a status() call, and the first
\* status() call made after the child terminated returns its terminal status
\* and reaps it.
C13_ExitNeverReaps ==
    /\ [][Exit => (child'.state = child.state /\ child'.status = child.status)]_vars
    /\ [][(child.state = "zombie" /\ child'.state # "zombie") =>
             (Status /\ child'.state = "reaped")]_vars
    /\ [][(Status /\ child.state = "zombie") =>
             (/\ ret'.ok
              /\ Terminal(ret'.val)
              /\ ret'.val = child.status
              /\ child'.state = "reaped")]_vars

C13_Witness ==
    /\ phase = "live"
    /\ ret.op = "exit"
    /\ ret.ok
    /\ child.state = "zombie"
    /\ child.status = Signaled

C15_TerminalStatusOnce ==
    /\ [][(Status /\ Terminal(ret'.val)) =>
             (child.state = "zombie" /\ child'.state = "reaped")]_vars
    /\ [][(Status /\ child.state = "reaped") =>
             (~ret'.ok /\ ~Terminal(ret'.val))]_vars
    /\ [][child.state = "reaped" => child'.state = "reaped"]_vars

C15_Witness ==
    /\ HistOps = <<"spawn", "status", "status", "status">>
    /\ hist[3].ok
    /\ ~hist[4].ok
    /\ ret.op = "status"
    /\ ~ret.ok
    /\ child.state = "reaped"

\* ----------------------------------------------------------------- C16
\* C16: when the child has been reaped, exit() fails at the signal step,
\* returns an error and issues no close: the descriptor table is as before,
\* so an open master descriptor is left open.
C16_FailedSignalSkipsClose ==
    [][(Exit /\ child.state = "reaped") =>
          (/\ ~ret'.ok
           /\ sys' = <<Sys("kill", "pid", FALSE)>>
           /\ open' = open
           /\ mCloses' = mCloses
           /\ exited' = exited)]_vars

C16_Witness ==
    /\ HistOps = <<"spawn", "status", "exit">>
    /\ ret.op = "exit"
    /\ ~ret.ok
    /\ child.state = "reaped"
    /\ open["m"]
    /\ mCloses = 0

\* ----------------------------------------------------------------- C17
\* C17: exit() returns Ok at most once per session: after a successful
\* exit() every further exit() returns an error, from its kill or its close.
C17_ExitOkAtMostOnce ==
    [][(Exit /\ exited) =>
          (~ret'.ok /\ ~sys'[Len(sys')].ok
             /\ sys'[Len(sys')].call \in {"kill", "close"})]_vars

C17_Witness ==
    /\ HistOps = <<"spawn", "exit", "exit">>
    /\ hist[2].ok
    /\ ~hist[3].ok
    /\ sys = <<Sys("kill", "pid", TRUE), Sys("close", "m", FALSE)>>

\* ----------------------------------------------------------------- C18
\* C18: status() leaves the writer's buffer, the descriptor table and the
\* bytes written as they are, and changes nothing of the session or the
\* child when it returns StillAlive; exit() does not flush the writer: the
\* buffer and the bytes written are as before it.
C18_StatusAndExitFrames ==
    /\ [][Status =>
             (/\ buffer' = buffer
              /\ open' = open
              /\ mCloses' = mCloses
              /\ written' = written)]_vars
    /\ [][(Status /\ ret'.val = StillAlive) =>
             (/\ child' = child
              /\ phase' = phase
              /\ program' = program
              /\ echoed' = echoed
              /\ sent' = sent
              /\ exited' = exited)]_vars
    /\ [][Exit => (buffer' = buffer /\ written' = written)]_vars

C18_Witness ==
    /\ HistOps = <<"spawn", "send_line", "status", "exit">>
    /\ \A i \in 1..Len(hist) : hist[i].ok
    /\ ret.op = "exit"
    /\ written = <<"h", NL>>
    /\ buffer = <<"s">>

====
